---- MODULE Spec2Model ----
(***************************************************************************)
(* Model of the scanning engine of gns3-cluster-dashboard                  *)
(* (src/app/scanner.py): the NetworkScanner registry and its lock, the     *)
(* background worker (_run), start() and stop(), scan_now(), snapshot()    *)
(* and get(), and the per-host pipeline of _scan_once with its             *)
(* field-by-field commit section.                                          *)
(*                                                                         *)
(* A run starts from the state after NetworkScanner(devices) for one of a  *)
(* few deployments (Scenarios): a device list, what the network around     *)
(* each device can answer, and the calls the serving layer issues.         *)
(*                                                                         *)
(* Specifications:                                                         *)
(*   Spec       the scanner with its threads and callers; of a scan it     *)
(*              keeps the fields written up to gns3_api_ok                 *)
(*   FairSpec   the deployment with start(), stop() and scan_now()         *)
(*              callers, under the fairness of the thread scheduling       *)
(*   ScanOfHost one scan of one host through all its probes                *)
(*              (_query_gns3_api, _ssh_fetch_metrics) and the whole commit *)
(*   Wake       one POST /api/wol request (server.py, wol.py)              *)
(***************************************************************************)
EXTENDS Integers, Sequences, FiniteSets, TLC

(* ---------------------------------------------------------------- bounds *)
\* time.time() is modelled as a non-decreasing integer clock in 0..MaxClock
MaxClock == 1

(* ------------------------------------------------------ program constants *)
\* Optional[float] = None for last_seen / last_checked
NoTime == -1
\* Optional[int] = None for gns3_port (the code tests it by truthiness)
NoPort == 0
\* ports = [3080, 3443, 80, 443] in _check_gns3_ports
GNS3_PORTS == <<3080, 3443, 80, 443>>
\* gns3_port in (443, 3443) selects https
HTTPS_PORTS == {443, 3443}

(* percentages are kept as exact fractions n/d with d > 0; d = 0 stands for
   None (Optional[float]) *)
NoPercent == [n |-> 0, d |-> 0]
Ratio(n, d) == IF d < 0 THEN [n |-> 0 - n, d |-> 0 - d] ELSE [n |-> n, d |-> d]
Present(p) == p.d # 0

(* ------------------------------------------------------------ the devices *)
\* gns3key as load_config passes it on: an empty mapping, a mapping with
\* server_url and access_token, or a YAML scalar (load_config never checks
\* the shape: d.get("gns3key") or {}).
NoKey  == [shape |-> "mapping", server_url |-> "", access_token |-> ""]
Key(u) == [shape |-> "mapping", server_url |-> u, access_token |-> "tok"]
BadKey == [shape |-> "scalar", server_url |-> "", access_token |-> ""]

\* the ssh entry of a device: d.get("ssh") or {} -- no credentials, or a
\* username and a password
NoSsh == [username |-> "", password |-> ""]
Login == [username |-> "monitor", password |-> "secret"]

\* device dictionaries as NetworkScanner(devices) receives them; the id of a
\* device is its index in the list (config.py)
Plain  == [ip |-> "10.0.0.1", mac |-> "", gns3key |-> NoKey, ssh |-> NoSsh]
Broken == [ip |-> "10.0.0.2", mac |-> "", gns3key |-> BadKey, ssh |-> NoSsh]
Keyed  == [ip |-> "10.0.0.3", mac |-> "aa:bb:cc:00:00:03",
           gns3key |-> Key("https://gns3.lab"), ssh |-> Login]

\* how an API server answers the requests of one _query_gns3_api call:
\*   ver   the API root whose /version answers ok ("none": neither does)
\*   proj  the projects requests: they raise (timeout, connection reset),
\*         answer with an error status, or answer ok with n open projects
\*   stats the statistics requests: each raises, each answers with an error
\*         status, or one answers ok with the JSON object obj, given as the
\*         sequence of its <<key, value>> pairs
ProjRaises == [st |-> "raise", n |-> 0]
NoProjects == [st |-> "ok", n |-> 0]
NoStats    == [st |-> "notok", obj |-> << >>]

\* what the network around a device can answer to the probes of one cycle:
\* the results of ping, the answers of the neighbour table, the candidate
\* ports that may be open, and how the API server reacts
AnyApi == [ver : {"/v3", "/v2", "none"}, proj : {ProjRaises, NoProjects},
           stats : {NoStats}]
NoApi  == {[ver |-> "none", proj |-> NoProjects, stats |-> NoStats]}

Steady   == [ping |-> {TRUE}, arp |-> {""}, listen |-> {}, api |-> NoApi]
Flapping == [ping |-> {TRUE, FALSE}, arp |-> {""}, listen |-> {}, api |-> NoApi]
Resolving == [ping |-> {TRUE, FALSE}, arp |-> {"", "aa:bb:cc:00:00:01"},
              listen |-> {}, api |-> NoApi]
WebHost  == [ping |-> {TRUE, FALSE}, arp |-> {""}, listen |-> {3080}, api |-> NoApi]
Gns3Host == [ping |-> {TRUE}, arp |-> {""}, listen |-> {3443, 443}, api |-> AnyApi]

\* the deployments a run can start from
Scenarios ==
  << \* start/stop sequences around a running worker, with scan_now requests
     [devices |-> <<Plain>>, net |-> <<Steady>>,
      calls |-> {"start", "stop", "scan_now"}],
     \* a worker scanning three hosts, the second with a malformed gns3key
     [devices |-> <<Plain, Broken, Keyed>>, net |-> <<WebHost, Steady, Gns3Host>>,
      calls |-> {"start", "snapshot"}],
     \* the worker, scan_now requests and status requests on one host
     [devices |-> <<Plain>>, net |-> <<Resolving>>,
      calls |-> {"start", "scan_now", "snapshot"}],
     \* the worker and a request that uses get()
     [devices |-> <<Plain>>, net |-> <<Flapping>>,
      calls |-> {"start", "get"}] >>

(* ---------------------------------------------------------------- threads *)
WorkerSeq == <<"w1", "w2">>   \* threading.Thread objects start() can create
Workers  == {WorkerSeq[i] : i \in 1..Len(WorkerSeq)}
Callers  == {"s1"}            \* a request thread running scan_now()
Scanners == Workers \cup Callers

VARIABLES
  scn,      \* the deployment of this run (index in Scenarios)
  clock,    \* time.time()
  state,    \* self._state: id -> DeviceState
  lock,     \* self._lock: "free" or the thread holding it
  cw,       \* next assignment of the commit section (0 outside it)
  pre,      \* the record as it was when the commit section was entered
  pc,       \* position of every scanning thread
  idx,      \* number of hosts of the current cycle already left behind
  loc,      \* the locals of _scan_once for the host being scanned
  raised,   \* hosts whose pipeline raised in the thread's current cycle
  done,     \* hosts the thread committed in its current cycle
  stop,     \* self._stop (threading.Event)
  thread,   \* self._thread: "none" or the worker it refers to
  cpc,      \* position of the thread that calls start() and stop()
  last,     \* how the last start() or stop() call of that thread ended
  snapres,  \* what the last snapshot() returned, judged against the commits
  gpc,      \* position of the request that called get()
  gref,     \* the DeviceState object get() returned to it
  gval,     \* the field values that request has read from it so far
  gseen,    \* committed states of that record since get() returned
  ppc,      \* one scan of one host, probe by probe: the position in it
  pin,      \* what the remote ends answer to the probes of that scan
  out,      \* the locals of _scan_once in that scan
  rec,      \* the DeviceState record that scan commits to
  wpc,      \* position of a wake request (POST /api/wol)
  wreq,     \* the body of that request: id and mac
  wloc,     \* the locals of the handler: mac, and mac_bytes once parsed
  wres,     \* the HTTP status the request is answered with (0: not yet)
  sent,     \* the datagrams handed to sendto for that request
  apc,      \* position of every request thread inside start() or stop()
  anew      \* the Thread object such a thread has created in start()

envVars  == <<scn, clock>>
regVars  == <<state, lock, cw, pre>>
scanVars == <<pc, idx, loc, raised, done>>
ctlVars  == <<stop, thread, cpc, last>>
getVars  == <<gpc, gref, gval, gseen>>
scannerVars == <<envVars, regVars, scanVars, ctlVars, snapres, getVars>>
probeVars == <<ppc, pin, out, rec>>
wolVars   == <<wpc, wreq, wloc, wres, sent>>
raceVars  == <<apc, anew>>
sideVars  == <<probeVars, wolVars, raceVars>>
vars == <<scannerVars, sideVars>>

Devices == Scenarios[scn].devices
Net     == Scenarios[scn].net
Calls   == Scenarios[scn].calls
Hosts   == 1..Len(Devices)

(* ------------------------------------------------------------ DeviceState *)
\* DeviceState(id=..., ip=..., mac=d.get("mac", "")) with the dataclass defaults
InitState(d) ==
  [ up |-> FALSE, mac |-> d.mac, last_seen |-> NoTime, last_checked |-> NoTime,
    gns3_active |-> FALSE, gns3_port |-> NoPort, gns3_url |-> "",
    gns3_api_ok |-> FALSE ]

NoRecord == InitState(Plain)

NoLocals ==
  [ up |-> FALSE, mac |-> "", gns3_active |-> FALSE, gns3_port |-> NoPort,
    gns3_url |-> "", api_ok |-> FALSE, api_ran |-> FALSE,
    projects_open |-> 0, cpu_p |-> NoPercent, mem_p |-> NoPercent,
    now |-> NoTime ]

NoSnapshot == [taken |-> FALSE, whole |-> TRUE, busy |-> FALSE]
NoRead == [up |-> FALSE, last_checked |-> NoTime]

\* NetworkScanner(devices) for one of the deployments
ScannerInit ==
  /\ scn \in 1..Len(Scenarios)
  /\ clock = 0
  /\ state = [h \in 1..Len(Scenarios[scn].devices) |->
                InitState(Scenarios[scn].devices[h])]
  /\ lock = "free"
  /\ cw = 0
  /\ pre = NoRecord
  /\ pc = [t \in Scanners |-> IF t \in Workers THEN "dead" ELSE "idle"]
  /\ idx = [t \in Scanners |-> 0]
  /\ loc = [t \in Scanners |-> NoLocals]
  /\ raised = [t \in Scanners |-> {}]
  /\ done = [t \in Scanners |-> {}]
  /\ stop = FALSE
  /\ thread = "none"
  /\ cpc = "idle"
  /\ last = "none"
  /\ snapres = NoSnapshot
  /\ gpc = "idle"
  /\ gref = 0
  /\ gval = NoRead
  /\ gseen = {}

(* ----------------------------------------------------------- the probes *)
\* _check_gns3_ports: the first port of GNS3_PORTS that accepts a connection,
\* given the set of ports open at the moment of the probe
RECURSIVE FirstOpenFrom(_, _)
FirstOpenFrom(i, open) ==
  IF i > Len(GNS3_PORTS) THEN NoPort
  ELSE IF GNS3_PORTS[i] \in open THEN GNS3_PORTS[i]
  ELSE FirstOpenFrom(i + 1, open)

CheckGns3Ports(open) == FirstOpenFrom(1, open)

\* f"{scheme}://{dev.ip}:{gns3_port}"
PortUrl(ip, port) ==
  (IF port \in HTTPS_PORTS THEN "https" ELSE "http") \o "://" \o ip \o ":"
    \o ToString(port)

\* the keys _query_gns3_api looks for in a statistics object, in its order
CANDIDATES_CPU ==
  <<"cpu_percent", "cpu_usage_percent", "system_cpu_percent", "cpu_usage">>
CANDIDATES_MEM_PERCENT ==
  <<"memory_percent", "mem_percent", "system_memory_percent">>
CANDIDATES_MEM_USED == <<"memory_used", "mem_used", "system_memory_used">>
CANDIDATES_MEM_TOTAL == <<"memory_total", "mem_total", "system_memory_total">>

\* k in stats
HasKey(obj, k) == \E i \in 1..Len(obj) : obj[i][1] = k
\* stats[k]
ValueOf(obj, k) == obj[CHOOSE i \in 1..Len(obj) : obj[i][1] = k][2]

\* for k in keys: if k in stats ...: break -- the first key of keys, from
\* position i on, that the object has ("" if it has none)
RECURSIVE FirstKey(_, _, _)
FirstKey(obj, keys, i) ==
  IF i > Len(keys) THEN ""
  ELSE IF HasKey(obj, keys[i]) THEN keys[i]
  ELSE FirstKey(obj, keys, i + 1)

\* lines 343-346: cpu_p = float(stats[k])
StatsCpu(obj) ==
  LET k == FirstKey(obj, CANDIDATES_CPU, 1)
  IN IF k = "" THEN NoPercent ELSE Ratio(ValueOf(obj, k), 1)

\* lines 347-364: mem_p = float(stats[k]), or (used / total) * 100.0 when
\* used is not None and total is not zero
StatsMem(obj) ==
  LET k == FirstKey(obj, CANDIDATES_MEM_PERCENT, 1)
      u == FirstKey(obj, CANDIDATES_MEM_USED, 1)
      t == FirstKey(obj, CANDIDATES_MEM_TOTAL, 1)
  IN IF k # "" THEN Ratio(ValueOf(obj, k), 1)
     ELSE IF u # "" /\ t # "" /\ ValueOf(obj, t) # 0
          THEN Ratio(100 * ValueOf(obj, u), ValueOf(obj, t))
     ELSE NoPercent

\* lines 308-321: the API roots whose statistics paths are tried -- those
\* of /v3 if /v3 was chosen, the four /v2 paths in every other case
StatsPaths(ver) == IF ver = "/v3" THEN <<"/v3">> ELSE <<"/v2">>

\* _query_gns3_api for the answers a of the server. raise: a projects
\* request raised (lines 289-299 are in no try block) and the exception
\* leaves the function; the other fields are the returned tuple.
QueryGns3Api(a) ==
  LET api_ok == a.ver # "none"
      stats  == IF a.stats.st = "ok" /\ StatsPaths(a.ver) # << >>
                THEN a.stats.obj ELSE << >>
  IN IF a.ver # "none" /\ a.proj.st = "raise"
     THEN [raise |-> TRUE, api_ok |-> FALSE, projects_open |-> 0,
           cpu_p |-> NoPercent, mem_p |-> NoPercent]
     ELSE [raise |-> FALSE, api_ok |-> api_ok,
           projects_open |-> IF a.ver # "none" /\ a.proj.st = "ok"
                             THEN a.proj.n ELSE 0,
           cpu_p |-> StatsCpu(stats), mem_p |-> StatsMem(stats)]

\* gkey and gkey.get("server_url") and gkey.get("access_token"): a gns3key
\* that is no mapping has no .get and raises AttributeError, outside the
\* inner try
GkeyRaises(gkey) == gkey.shape # "mapping"
GkeyConfigured(gkey) == gkey.server_url # "" /\ gkey.access_token # ""

\* variant: gns3_active = api_ok
MergeActiveApiOnly(active, api_ok) == api_ok

\* gns3_active = gns3_active or api_ok
MergeActive(active, api_ok) == active \/ api_ok

\* variant: gns3_url = gns3_url or gkey.get("server_url")
MergeUrlKeepsPortUrl(gkey, url) == IF url # "" THEN url ELSE gkey.server_url

\* gns3_url = gkey.get("server_url") or gns3_url
MergeUrl(gkey, url) == IF gkey.server_url # "" THEN gkey.server_url ELSE url

\* lines 83-114 of _scan_once for host h: the locals the commit will use.
\* curmac is dev.mac as read at line 85, arp the answer of _get_mac, open the
\* ports open now, q the outcome of _query_gns3_api. api_ran records that
\* the call of line 109 returned.
ScanLocals(h, curmac, up, arp, open, q) ==
  LET dev    == Devices[h]
      gkey   == dev.gns3key
      mac    == IF curmac # "" THEN curmac ELSE arp
      port   == CheckGns3Ports(open)
      active == port # NoPort
      url    == IF port # NoPort THEN PortUrl(dev.ip, port) ELSE ""
      api    == GkeyConfigured(gkey) /\ ~q.raise
  IN [ up |-> up, mac |-> mac,
       gns3_active |-> IF api THEN MergeActive(active, q.api_ok) ELSE active,
       gns3_port |-> port,
       gns3_url |-> IF api THEN MergeUrl(gkey, url) ELSE url,
       api_ok |-> IF api THEN q.api_ok ELSE FALSE,
       api_ran |-> api,
       projects_open |-> IF api THEN q.projects_open ELSE 0,
       cpu_p |-> IF api THEN q.cpu_p ELSE NoPercent,
       mem_p |-> IF api THEN q.mem_p ELSE NoPercent,
       now |-> NoTime ]

(* ------------------------------------------------- _ssh_fetch_metrics *)
\* Optional[int] = None for ssh_users_active
NoCount == -1

Max(a, b) == IF a >= b THEN a ELSE b

\* users_active (lines 386-423) from the answers to "who", "uptime" and
\* "who | wc -l". who: it raises, or lists own sessions of the monitoring
\* user and others of other users; uptime: it raises, shows no "N users",
\* or shows users; wc: it raises or prints n. Every "who" of one call is
\* answered alike.
UsersActive(who, uptime, wc) ==
  LET first  == IF who.st = "ok" /\ who.own + who.others > 0
                THEN who.others ELSE NoCount
      second == IF uptime.st # "ok" \/ who.st = "raise" THEN NoCount
                ELSE Max(0, uptime.users - who.own)
      third  == IF wc.st # "ok" THEN NoCount
                ELSE IF wc.n = 0 THEN 0
                ELSE IF who.st = "raise" THEN NoCount
                ELSE Max(0, wc.n - who.own)
  IN IF first # NoCount THEN first
     ELSE IF second # NoCount THEN second
     ELSE third

\* parse(line) of lines 431-438 for the counters nums of a "cpu " line:
\* idle = nums[3] + nums[4] (0-based; IndexError under four counters),
\* total = sum(nums)
RECURSIVE Sum(_)
Sum(nums) == IF nums = << >> THEN 0 ELSE Head(nums) + Sum(Tail(nums))
Idle(nums) == nums[4] + (IF Len(nums) > 4 THEN nums[5] ELSE 0)
Total(nums) == Sum(nums)

\* lines 441-443
DeltaIdle(l1, l2) == Max(0, Idle(l2) - Idle(l1))
DeltaTotal(l1, l2) == Max(1, Total(l2) - Total(l1))

\* lines 429-445: cpu_percent from the "cpu " lines of the output;
\* 100.0 * (1.0 - delta_idle / delta_total) is 100 (dt - di) / dt
CpuPercent(lines) ==
  IF Len(lines) < 2 THEN NoPercent
  ELSE IF Len(lines[1]) < 4 \/ Len(lines[2]) < 4 THEN NoPercent
  ELSE LET di == DeltaIdle(lines[1], lines[2])
           dt == DeltaTotal(lines[1], lines[2])
       IN Ratio(100 * (dt - di), dt)

\* lines 460-463: mem_percent from MemTotal and MemAvailable (0 when the
\* key is missing)
MemPercent(mt, ma) ==
  IF mt > 0 /\ ma >= 0 THEN Ratio(100 * (mt - ma), mt) ELSE NoPercent

\* lines 471-480: disk_percent = float(use) for the fifth column of the
\* second line of the output, its "%" removed. df: "empty" (under two lines
\* or five columns), "dash" (a column float() rejects), or "ok" with use.
DiskPercent(df) == IF df.st = "ok" THEN Ratio(df.use, 1) ELSE NoPercent

\* re.match(r"^(?:\d{1,3}\.){3}\d{1,3}$", token), scanning token from
\* position i with dots and digits counted
Digits == {"0", "1", "2", "3", "4", "5", "6", "7", "8", "9"}
RECURSIVE ScanIPv4(_, _, _, _)
ScanIPv4(token, i, dots, digits) ==
  IF i > Len(token) THEN dots = 3 /\ digits \in 1..3
  ELSE LET c == SubSeq(token, i, i)
       IN IF c \in Digits
          THEN digits < 3 /\ ScanIPv4(token, i + 1, dots, digits + 1)
          ELSE c = "." /\ digits \in 1..3 /\ dots < 3
               /\ ScanIPv4(token, i + 1, dots + 1, 0)
IsIPv4(token) == ScanIPv4(token, 1, 0, 0)

\* a.startswith(p)
StartsWith(a, p) == Len(a) >= Len(p) /\ SubSeq(a, 1, Len(p)) = p

Contains(list, a) == \E i \in 1..Len(list) : list[i] = a

\* lines 488-491: the tokens of the output that look like IPv4 addresses
RECURSIVE Addrs(_)
Addrs(tokens) ==
  IF tokens = << >> THEN << >>
  ELSE IF IsIPv4(Head(tokens)) THEN <<Head(tokens)>> \o Addrs(Tail(tokens))
  ELSE Addrs(Tail(tokens))

\* lines 494-502: loopback and link-local addresses dropped, every other
\* address kept where it is seen first; acc is the list so far
RECURSIVE Filtered(_, _)
Filtered(addrs, acc) ==
  IF addrs = << >> THEN acc
  ELSE LET a == Head(addrs)
       IN IF StartsWith(a, "127.") \/ StartsWith(a, "169.254.")
             \/ Contains(acc, a)
          THEN Filtered(Tail(addrs), acc)
          ELSE Filtered(Tail(addrs), Append(acc, a))

\* run(cmd) for a command the remote end would answer with ans: on a client
\* that was closed, exec_command raises (paramiko drops the transport in
\* close())
Raises == [st |-> "raise", tokens |-> << >>]
Run(ans, closed) == IF closed THEN Raises ELSE ans

\* line 482 closes the client, line 486 runs the address listing
ClosedBeforeListing == TRUE

\* lines 484-502: the address list the probe returns; an exception of the
\* listing is swallowed with addrs empty
Discovered(listing) ==
  LET r == Run(listing, ClosedBeforeListing)
  IN IF r.st = "raise" THEN Filtered(<< >>, << >>)
     ELSE Filtered(Addrs(r.tokens), << >>)

\* the tuple of line 509, also what _scan_once keeps when it does not call
\* the probe
SshFailed ==
  [ok |-> FALSE, users |-> NoCount, cpu |-> NoPercent, mem |-> NoPercent,
   disk |-> NoPercent, ips |-> << >>]

\* _ssh_fetch_metrics for the answers s of the remote end: conn says that
\* connect() succeeded. run() for the CPU counters, the memory info and the
\* disk usage (lines 426, 448, 468) stands outside the try blocks that
\* follow it, so that its exception reaches the handler of line 504.
SshFetchMetrics(s) ==
  IF ~s.conn THEN SshFailed
  ELSE IF s.cpu.st = "raise" \/ s.mem.st = "raise" \/ s.df.st = "raise"
  THEN SshFailed
  ELSE [ok |-> TRUE,
        users |-> UsersActive(s.who, s.uptime, s.wc),
        cpu |-> CpuPercent(s.cpu.lines),
        mem |-> MemPercent(s.mem.mt, s.mem.ma),
        disk |-> DiskPercent(s.df),
        ips |-> Discovered(s.addrs)]

\* lines 117-128 of _scan_once for a device with the ssh entry conf
SshConfigured(conf) == conf.username # "" /\ conf.password # ""
SshLocals(conf, s) == IF SshConfigured(conf) THEN SshFetchMetrics(s) ELSE SshFailed

(* ------------------------------------------------------------ the commit *)
\* the assignments of the commit section up to gns3_api_ok (lines 134-144),
\* in program order; those that follow (lines 145-159) copy locals of the
\* same scan and are part of CommitAll
CommitOrder ==
  << "up", "mac", "last_checked", "last_seen", "gns3_active", "gns3_port",
     "gns3_url", "gns3_api_ok" >>

\* variant: cur.mac = mac, without the test
CommitMacAlways(cur, l) == l.mac

\* if mac: cur.mac = mac
CommitMac(cur, l) == IF l.mac # "" THEN l.mac ELSE cur.mac

\* variant: cur.last_seen = now, without the test
CommitLastSeenAlways(cur, l) == l.now

\* if up: cur.last_seen = now
CommitLastSeen(cur, l) == IF l.up THEN l.now ELSE cur.last_seen

\* the value assignment number k gives its field, cur being the record now
CommitValue(k, cur, l) ==
  CASE CommitOrder[k] = "up"           -> l.up
    [] CommitOrder[k] = "mac"          -> CommitMac(cur, l)
    [] CommitOrder[k] = "last_checked" -> l.now
    [] CommitOrder[k] = "last_seen"    -> CommitLastSeen(cur, l)
    [] CommitOrder[k] = "gns3_active"  -> l.gns3_active
    [] CommitOrder[k] = "gns3_port"    -> l.gns3_port
    [] CommitOrder[k] = "gns3_url"     -> l.gns3_url
    [] CommitOrder[k] = "gns3_api_ok"  -> l.api_ok

\* the record after assignments k..last
RECURSIVE CommitFrom(_, _, _)
CommitFrom(k, cur, l) ==
  IF k > Len(CommitOrder) THEN cur
  ELSE CommitFrom(k + 1, [cur EXCEPT ![CommitOrder[k]] = CommitValue(k, cur, l)], l)

\* variant: ips_list = ssh_ips[:] or [dev.ip], the configured address only
\* when the probe found none
CommitIpsFallbackOnly(ip, ssh_ips) ==
  IF ssh_ips = << >> /\ ip # "" THEN <<ip>> ELSE ssh_ips

\* lines 154-159: the probe's addresses, with dev.ip put in front unless it
\* is one of them
CommitIps(ip, ssh_ips) ==
  IF ip # "" /\ ~Contains(ssh_ips, ip) THEN <<ip>> \o ssh_ips ELSE ssh_ips

\* DeviceState with the fields lines 145-159 assign
FullState(d) ==
  InitState(d) @@
  [ gns3_projects_open |-> 0, gns3_cpu_percent |-> NoPercent,
    gns3_mem_percent |-> NoPercent, ssh_ok |-> FALSE,
    ssh_users_active |-> NoCount, ssh_cpu_percent |-> NoPercent,
    ssh_mem_percent |-> NoPercent, ssh_disk_percent |-> NoPercent,
    ips |-> << >> ]

\* the whole commit section (lines 134-159) for the locals l of the port and
\* API probes and the tuple s of the remote-shell probe
CommitAll(cur, ip, l, s) ==
  [ CommitFrom(1, cur, l) EXCEPT
      !.gns3_projects_open = l.projects_open,
      !.gns3_cpu_percent = l.cpu_p,
      !.gns3_mem_percent = l.mem_p,
      !.ssh_ok = s.ok,
      !.ssh_users_active = s.users,
      !.ssh_cpu_percent = s.cpu,
      !.ssh_mem_percent = s.mem,
      !.ssh_disk_percent = s.disk,
      !.ips = CommitIps(ip, s.ips) ]

(* ------------------------------------------------------------ _scan_once *)
Alive(w) == pc[w] # "dead"
AliveWorkers == {w \in Workers : Alive(w)}

\* the host the thread is working on
Cur(t) == idx[t] + 1

\* where a thread goes when its cycle is over: the worker to
\* self._stop.wait(self.interval), scan_now() back to its caller
CycleEnd(t) == IF t \in Workers THEN "wait" ELSE "returned"

\* position after the for loop has left n hosts behind
AfterHost(t, n) == IF n < Len(Devices) THEN "probe" ELSE CycleEnd(t)

\* variant: no handler around the host's pipeline, the exception leaves
\* _scan_once and ends the worker (or the scan_now request)
HostExceptionPropagates(t) == IF t \in Workers THEN "dead" ELSE "returned"

\* except Exception: pass -- the for loop goes on with the next host
OnHostException(t) == AfterHost(t, idx[t] + 1)

\* the index the for loop is left with at position p
IdxAt(t, p) == IF p = "probe" THEN idx[t] + 1 ELSE 0

BeginCycle(t) ==
  /\ idx' = [idx EXCEPT ![t] = 0]
  /\ raised' = [raised EXCEPT ![t] = {}]
  /\ done' = [done EXCEPT ![t] = {}]
  /\ pc' = [pc EXCEPT ![t] = AfterHost(t, 0)]
  /\ UNCHANGED loc

\* lines 83-128: the probes of one host; a gns3key that is no mapping raises
\* into the handler of line 160
Probe(t) ==
  /\ pc[t] = "probe"
  /\ LET h == Cur(t) IN
     IF GkeyRaises(Devices[h].gns3key)
     THEN /\ raised' = [raised EXCEPT ![t] = @ \cup {h}]
          /\ pc' = [pc EXCEPT ![t] = OnHostException(t)]
          /\ idx' = [idx EXCEPT ![t] = IdxAt(t, OnHostException(t))]
          /\ UNCHANGED loc
     ELSE /\ \E up \in Net[h].ping, arp \in Net[h].arp,
                open \in SUBSET Net[h].listen, a \in Net[h].api :
               loc' = [loc EXCEPT ![t] =
                         ScanLocals(h, state[h].mac, up, arp, open,
                                    QueryGns3Api(a))]
          /\ pc' = [pc EXCEPT ![t] = "time"]
          /\ UNCHANGED <<idx, raised>>
  /\ UNCHANGED <<envVars, regVars, done, ctlVars, snapres, getVars, sideVars>>

\* line 129: now = time.time()
TakeTime(t) ==
  /\ pc[t] = "time"
  /\ \E now \in {clock, clock + 1} :
       /\ now <= MaxClock
       /\ clock' = now
       /\ loc' = [loc EXCEPT ![t].now = now]
  /\ pc' = [pc EXCEPT ![t] = "lock"]
  /\ UNCHANGED <<scn, regVars, idx, raised, done, ctlVars, snapres, getVars, sideVars>>

\* variant: the commit section entered without taking the lock
CommitUnlocked(t) == pc[t] = "lock"

\* with self._lock (line 130) lets the thread in when the lock is free
CommitEnabled(t) == pc[t] = "lock" /\ lock = "free"

\* line 130: with self._lock
Acquire(t) ==
  /\ CommitEnabled(t)
  /\ lock' = t
  /\ cw' = 1
  /\ pre' = state[Cur(t)]
  /\ pc' = [pc EXCEPT ![t] = "commit"]
  /\ UNCHANGED <<envVars, state, idx, loc, raised, done, ctlVars, snapres, getVars, sideVars>>

\* the two fields the get() request reads
Project(r) == [up |-> r.up, last_checked |-> r.last_checked]

\* one assignment of lines 134-144; the last one leaves the with block
CommitWrite(t) ==
  /\ pc[t] = "commit"
  /\ lock = t
  /\ LET h == Cur(t)
         p == AfterHost(t, idx[t] + 1)
     IN
     /\ state' = [state EXCEPT ![h][CommitOrder[cw]] = CommitValue(cw, state[h], loc[t])]
     /\ IF cw < Len(CommitOrder)
        THEN /\ cw' = cw + 1
             /\ UNCHANGED <<lock, pre, scanVars, gseen>>
        ELSE /\ cw' = 0
             /\ lock' = "free"
             /\ pre' = NoRecord
             /\ done' = [done EXCEPT ![t] = @ \cup {h}]
             /\ loc' = [loc EXCEPT ![t] = NoLocals]
             /\ pc' = [pc EXCEPT ![t] = p]
             /\ idx' = [idx EXCEPT ![t] = IdxAt(t, p)]
             /\ gseen' = IF gpc \in {"read_up", "read_checked"} /\ gref = h
                         THEN gseen \cup {Project(state'[h])} ELSE gseen
             /\ UNCHANGED raised
  /\ UNCHANGED <<envVars, ctlVars, snapres, gpc, gref, gval, sideVars>>

(* ------------------------------------------------- snapshot() and get() *)
\* variant: snapshot() copies the records without taking the lock
SnapshotUnlocked == TRUE

\* with self._lock
SnapshotEnabled == lock = "free"

\* [vars(v).copy() for v in self._state.values()]
SnapshotResult == [h \in Hosts |-> state[h]]

\* the record of host h before and after the commit that is under way, if
\* one is; the record itself otherwise
Before(h) == IF lock # "free" /\ Cur(lock) = h THEN pre ELSE state[h]
After(h) ==
  IF lock # "free" /\ Cur(lock) = h THEN CommitFrom(cw, state[h], loc[lock])
  ELSE state[h]

\* every record of the result is the host's record before or after a commit
Whole(res) == \A h \in Hosts : res[h] \in {Before(h), After(h)}

\* a scan cycle is in progress
Scanning == \E t \in Scanners : pc[t] \in {"probe", "time", "lock", "commit"}

JudgeSnapshot(res) == [taken |-> TRUE, whole |-> Whole(res), busy |-> Scanning]

\* the /api/status request
Snapshot ==
  /\ "snapshot" \in Calls
  /\ SnapshotEnabled
  /\ snapres' = JudgeSnapshot(SnapshotResult)
  /\ UNCHANGED <<envVars, regVars, scanVars, ctlVars, getVars, sideVars>>

\* scan_now(): one cycle in the calling thread
ScanNow(t) ==
  /\ "scan_now" \in Calls
  /\ pc[t] = "idle"
  /\ BeginCycle(t)
  /\ UNCHANGED <<envVars, regVars, ctlVars, snapres, getVars, sideVars>>

\* the /api/scan-now request answers with scanner.snapshot()
ScanNowReturn(t) ==
  /\ pc[t] = "returned"
  /\ SnapshotEnabled
  /\ snapres' = JudgeSnapshot(SnapshotResult)
  /\ pc' = [pc EXCEPT ![t] = "idle"]
  /\ UNCHANGED <<envVars, regVars, idx, loc, raised, done, ctlVars, getVars, sideVars>>

\* get(dev_id): self._state.get(dev_id) under the lock; the caller is handed
\* the DeviceState object itself
Get ==
  /\ "get" \in Calls
  /\ gpc = "idle"
  /\ lock = "free"
  /\ \E h \in Hosts :
       /\ gref' = h
       /\ gseen' = {Project(state[h])}
  /\ gval' = NoRead
  /\ gpc' = "read_up"
  /\ UNCHANGED <<envVars, regVars, scanVars, ctlVars, snapres, sideVars>>

\* the caller reads dev.up, later dev.last_checked, with no lock held
GetRead ==
  /\ gpc \in {"read_up", "read_checked"}
  /\ IF gpc = "read_up"
     THEN /\ gval' = [gval EXCEPT !.up = state[gref].up]
          /\ gpc' = "read_checked"
     ELSE /\ gval' = [gval EXCEPT !.last_checked = state[gref].last_checked]
          /\ gpc' = "done"
  /\ UNCHANGED <<envVars, regVars, scanVars, ctlVars, snapres, gref, gseen, sideVars>>

\* the request is answered
GetDone ==
  /\ gpc = "done"
  /\ gpc' = "idle"
  /\ gref' = 0
  /\ gval' = NoRead
  /\ gseen' = {}
  /\ UNCHANGED <<envVars, regVars, scanVars, ctlVars, snapres, sideVars>>

(* ------------------------------------------------------------------ _run *)
\* while not self._stop.is_set(): self._scan_once()
RunLoop(w) ==
  /\ pc[w] = "loop"
  /\ IF stop
     THEN /\ pc' = [pc EXCEPT ![w] = "dead"]
          /\ UNCHANGED <<idx, loc, raised, done>>
     ELSE BeginCycle(w)
  /\ UNCHANGED <<envVars, regVars, ctlVars, snapres, getVars, sideVars>>

\* the interval of self._stop.wait(self.interval) runs out
IntervalEnds(w) ==
  /\ pc[w] = "wait"
  /\ pc' = [pc EXCEPT ![w] = "timeup"]
  /\ UNCHANGED <<envVars, regVars, idx, loc, raised, done, ctlVars, snapres, getVars, sideVars>>

\* variant: time.sleep(self.interval), which no event cuts short
SleepOver(w) == pc[w] = "timeup"

\* Event.wait(timeout) returns when the event is set or the timeout is over
WaitOver(w) == pc[w] = "timeup" \/ (pc[w] = "wait" /\ stop)

\* self._stop.wait(self.interval) returns
RunWait(w) ==
  /\ WaitOver(w)
  /\ pc' = [pc EXCEPT ![w] = "loop"]
  /\ UNCHANGED <<envVars, regVars, idx, loc, raised, done, ctlVars, snapres, getVars, sideVars>>

(* -------------------------------------------------------- start and stop *)
\* variant: start() without the liveness check
StartNeverReturnsEarly == FALSE

\* if self._thread and self._thread.is_alive(): return
StartReturnsEarly == thread # "none" /\ Alive(thread)

\* the Thread object start() creates: one that is not running
NewThread ==
  WorkerSeq[CHOOSE i \in 1..Len(WorkerSeq) :
              ~Alive(WorkerSeq[i]) /\ \A j \in 1..(i - 1) : Alive(WorkerSeq[j])]

Start ==
  /\ "start" \in Calls
  /\ cpc = "idle"
  /\ IF StartReturnsEarly
     THEN /\ last' = "start_noop"
          /\ UNCHANGED <<stop, thread, pc>>
     ELSE /\ \E w \in Workers : ~Alive(w)
          /\ stop' = FALSE
          /\ thread' = NewThread
          /\ pc' = [pc EXCEPT ![NewThread] = "loop"]
          /\ last' = "start_new"
  /\ UNCHANGED <<envVars, regVars, idx, loc, raised, done, cpc, snapres, getVars, sideVars>>

\* self._stop.set()
StopSet ==
  /\ "stop" \in Calls
  /\ cpc = "idle"
  /\ stop' = TRUE
  /\ cpc' = IF \E w \in Workers : pc[w] \in {"probe", "time", "lock", "commit"}
            THEN "join_inflight" ELSE "join"
  /\ UNCHANGED <<envVars, regVars, scanVars, thread, last, snapres, getVars, sideVars>>

\* self._thread.join(timeout=2) has returned with the thread ended
Joined == thread = "none" \/ ~Alive(thread)

\* if self._thread: self._thread.join(timeout=2) -- returns when the thread
\* has ended or the two seconds are over
StopReturn ==
  /\ cpc \in {"join", "join_inflight"}
  /\ cpc' = "idle"
  /\ last' = IF ~Joined THEN "stop_timeout"
             ELSE IF cpc = "join_inflight" THEN "stop_joined_late"
             ELSE "stop_joined"
  /\ UNCHANGED <<envVars, regVars, scanVars, stop, thread, snapres, getVars, sideVars>>

(* ----------------------------- start() and stop() from several threads *)
\* start() and stop() statement by statement, for request threads that call
\* them side by side
ApiCallers == {"a1", "a2"}

RaceIdle == apc = [a \in ApiCallers |-> "idle"] /\ anew = [a \in ApiCallers |-> "none"]

\* Thread objects that are neither running nor held by a caller between
\* its lines 55 and 56
Unused == {w \in Workers : ~Alive(w) /\ \A a \in ApiCallers : anew[a] # w}
Fresh ==
  WorkerSeq[CHOOSE i \in 1..Len(WorkerSeq) :
              WorkerSeq[i] \in Unused /\ \A j \in 1..(i - 1) : WorkerSeq[j] \notin Unused]

\* line 52-53: the liveness test; a thread created but not yet started is
\* not alive
StartTest(a) ==
  /\ "start" \in Calls
  /\ apc[a] = "idle"
  /\ apc' = [apc EXCEPT ![a] = IF StartReturnsEarly THEN "idle" ELSE "clear"]
  /\ UNCHANGED <<scannerVars, probeVars, wolVars, anew>>

\* line 54: self._stop.clear()
StartClear(a) ==
  /\ apc[a] = "clear"
  /\ stop' = FALSE
  /\ apc' = [apc EXCEPT ![a] = "create"]
  /\ UNCHANGED <<envVars, regVars, scanVars, thread, cpc, last, snapres, getVars,
                 probeVars, wolVars, anew>>

\* line 55: self._thread = threading.Thread(...)
StartCreate(a) ==
  /\ apc[a] = "create"
  /\ Unused # {}
  /\ thread' = Fresh
  /\ anew' = [anew EXCEPT ![a] = Fresh]
  /\ apc' = [apc EXCEPT ![a] = "run"]
  /\ UNCHANGED <<envVars, regVars, scanVars, stop, cpc, last, snapres, getVars,
                 probeVars, wolVars>>

\* line 56: self._thread.start() -- the attribute is read again, so the
\* thread started is the one stored last; starting a thread twice raises
\* RuntimeError and starts nothing
StartRun(a) ==
  /\ apc[a] = "run"
  /\ pc' = IF Alive(thread) THEN pc ELSE [pc EXCEPT ![thread] = "loop"]
  /\ anew' = [anew EXCEPT ![a] = "none"]
  /\ apc' = [apc EXCEPT ![a] = "idle"]
  /\ UNCHANGED <<envVars, regVars, idx, loc, raised, done, ctlVars, snapres, getVars,
                 probeVars, wolVars>>

\* line 59: self._stop.set()
StopSignal(a) ==
  /\ "stop" \in Calls
  /\ apc[a] = "idle"
  /\ stop' = TRUE
  /\ apc' = [apc EXCEPT ![a] = "join"]
  /\ UNCHANGED <<envVars, regVars, scanVars, thread, cpc, last, snapres, getVars,
                 probeVars, wolVars, anew>>

\* lines 60-61: join(timeout=2) returns, the thread ended or not (or raises,
\* the thread not being started yet)
StopJoin(a) ==
  /\ apc[a] = "join"
  /\ apc' = [apc EXCEPT ![a] = "idle"]
  /\ UNCHANGED <<scannerVars, probeVars, wolVars, anew>>

(* --------------------------------------- one scan of one host, in detail *)
\* The scanner specification keeps of a scan what the registry's locking
\* depends on. ScanOfHost follows one pass of the loop body of _scan_once
\* (a scan_now() with no worker running) through every probe, for all the
\* answers the remote ends can give, and commits all the fields.

\* bounds of the answers
MaxProjects == 1     \* open projects a server reports
MaxCount == 1        \* every counter of a "cpu " line
MaxKb == 2           \* MemTotal and MemAvailable; memory_used, memory_total
MaxTokens == 2       \* tokens of the address listing

\* the deployment whose hosts are scanned: the one with a host that has API
\* and remote-shell credentials
ProbedScenario ==
  CHOOSE i \in 1..Len(Scenarios) :
    \E h \in 1..Len(Scenarios[i].devices) : Scenarios[i].devices[h] = Keyed

ProjAnswers ==
  {ProjRaises, [st |-> "notok", n |-> 0]}
    \cup {[st |-> "ok", n |-> n] : n \in 0..MaxProjects}

\* values a server reports under a percent key
PercentSamples == {-5, 0, 50, 100, 250}

StatsObjects ==
  {<< >>}
    \cup {<< <<"cpu_percent", v>> >> : v \in PercentSamples}
    \cup {<< <<"cpu_usage", 50>>, <<"mem_percent", v>> >> : v \in PercentSamples}
    \cup {<< <<"memory_used", u>>, <<"memory_total", t>> >> :
            u \in 0..MaxKb, t \in 0..MaxKb}
StatsAnswers ==
  {[st |-> "raise", obj |-> << >>], NoStats}
    \cup {[st |-> "ok", obj |-> o] : o \in StatsObjects}

ApiAnswers == [ver : {"/v3", "/v2", "none"}, proj : ProjAnswers, stats : StatsAnswers]

WhoAnswers ==
  {[st |-> "raise", own |-> 0, others |-> 0]}
    \cup {[st |-> "ok", own |-> o, others |-> n] : o \in 0..1, n \in 0..1}
UptimeAnswers ==
  {[st |-> "raise", users |-> 0], [st |-> "nomatch", users |-> 0],
   [st |-> "ok", users |-> 1]}
WcAnswers == {[st |-> "raise", n |-> 0]} \cup {[st |-> "ok", n |-> n] : n \in 0..1}

\* "cpu " lines: user, nice, system, idle, iowait -- and a line cut short
CpuLines ==
  {<<u, 0, 0, i, w>> : u \in 0..MaxCount, i \in 0..MaxCount, w \in 0..MaxCount}
    \cup {<<1, 0, 0>>}
CpuRaises == [st |-> "raise", lines |-> << >>]
CpuAnswers ==
  {CpuRaises, [st |-> "ok", lines |-> << >>]}
    \cup {[st |-> "ok", lines |-> <<a, b>>] : a \in CpuLines, b \in CpuLines}

MemRaises == [st |-> "raise", mt |-> 0, ma |-> 0]
MemAnswers ==
  {MemRaises} \cup {[st |-> "ok", mt |-> t, ma |-> a] : t \in 0..MaxKb, a \in 0..MaxKb}

\* the Capacity column of df -P
DfUse == {0, 57, 100, 101}
DfRaises == [st |-> "raise", use |-> 0]
DfAnswers ==
  {DfRaises, [st |-> "empty", use |-> 0], [st |-> "dash", use |-> 0]}
    \cup {[st |-> "ok", use |-> u] : u \in DfUse}

\* tokens of "ip -4 -o addr show scope global" with "/" made a blank
TokenSamples == {"inet", "10.0.0.3", "10.0.0.9", "127.0.0.1", "169.254.7.7"}
RECURSIVE SeqsUpTo(_, _)
SeqsUpTo(S, n) ==
  IF n = 0 THEN {<< >>}
  ELSE LET shorter == SeqsUpTo(S, n - 1)
       IN shorter \cup {Append(q, x) : q \in shorter, x \in S}
AddrAnswers == {Raises} \cup {[st |-> "ok", tokens |-> q] : q \in SeqsUpTo(TokenSamples, MaxTokens)}

\* a remote end that answers every command
BaseSsh ==
  [conn |-> TRUE,
   who |-> [st |-> "ok", own |-> 0, others |-> 1],
   uptime |-> [st |-> "ok", users |-> 1],
   wc |-> [st |-> "ok", n |-> 1],
   cpu |-> [st |-> "ok", lines |-> << <<0, 0, 0, 0, 0>>, <<1, 0, 0, 1, 0>> >>],
   mem |-> [st |-> "ok", mt |-> 2, ma |-> 1],
   df |-> [st |-> "ok", use |-> 57],
   addrs |-> [st |-> "ok", tokens |-> <<"inet", "10.0.0.9">>]]
BaseApi == [ver |-> "/v3", proj |-> NoProjects, stats |-> NoStats]

\* the answers of the remote shell: command failures in every combination
\* around BaseSsh, and every output of each single command
SshAnswers ==
  [conn : BOOLEAN, who : {BaseSsh.who, [st |-> "raise", own |-> 0, others |-> 0]},
   uptime : {BaseSsh.uptime}, wc : {BaseSsh.wc},
   cpu : {BaseSsh.cpu, CpuRaises}, mem : {BaseSsh.mem, MemRaises},
   df : {BaseSsh.df, DfRaises}, addrs : {BaseSsh.addrs, Raises}]
    \cup {[BaseSsh EXCEPT !.who = w, !.uptime = u, !.wc = c] :
            w \in WhoAnswers, u \in UptimeAnswers, c \in WcAnswers}
    \cup {[BaseSsh EXCEPT !.cpu = c] : c \in CpuAnswers}
    \cup {[BaseSsh EXCEPT !.mem = m] : m \in MemAnswers}
    \cup {[BaseSsh EXCEPT !.df = d] : d \in DfAnswers}
    \cup {[BaseSsh EXCEPT !.addrs = a] : a \in AddrAnswers}

\* the answers to the probes of one scan of host h: every API answer with
\* BaseSsh, every remote-shell answer with BaseApi
ProbeInputs ==
  [h : 1..Len(Scenarios[ProbedScenario].devices), up : BOOLEAN,
   open : SUBSET {3080}, api : ApiAnswers, ssh : {BaseSsh}]
    \cup [h : 1..Len(Scenarios[ProbedScenario].devices), up : {TRUE},
          open : {{}}, api : {BaseApi}, ssh : SshAnswers]

NoInput == [h |-> 0, up |-> FALSE, open |-> {}, api |-> BaseApi, ssh |-> BaseSsh]
NoOut == [loc |-> NoLocals, ssh |-> SshFailed]
NoDevice == FullState(Plain)

\* lines 83-114 for host pin.h
ScanPorts ==
  /\ ppc = "probe"
  /\ IF GkeyRaises(Devices[pin.h].gns3key)
     THEN /\ ppc' = "raised"
          /\ UNCHANGED out
     ELSE /\ out' = [out EXCEPT !.loc =
                       ScanLocals(pin.h, rec.mac, pin.up, "", pin.open,
                                  QueryGns3Api(pin.api))]
          /\ ppc' = "ssh"
  /\ UNCHANGED <<scannerVars, pin, rec, wolVars, raceVars>>

\* lines 116-128
ScanSsh ==
  /\ ppc = "ssh"
  /\ out' = [out EXCEPT !.ssh = SshLocals(Devices[pin.h].ssh, pin.ssh)]
  /\ ppc' = "commit"
  /\ UNCHANGED <<scannerVars, pin, rec, wolVars, raceVars>>

\* lines 129-159
ScanCommit ==
  /\ ppc = "commit"
  /\ rec' = CommitAll(rec, Devices[pin.h].ip, [out.loc EXCEPT !.now = clock], out.ssh)
  /\ ppc' = "done"
  /\ UNCHANGED <<scannerVars, pin, out, wolVars, raceVars>>

ProbeIdle == ppc = "off" /\ pin = NoInput /\ out = NoOut /\ rec = NoDevice

(* ------------------------------------------------------- wol.py, /api/wol *)
Char(s, i) == SubSeq(s, i, i)
Rest(s) == SubSeq(s, 2, Len(s))

UPPER == "ABCDEFGHIJKLMNOPQRSTUVWXYZ"
LOWER == "abcdefghijklmnopqrstuvwxyz"
HEX == "0123456789abcdef"

\* str.lower()
LowerChar(c) ==
  IF \E i \in 1..Len(UPPER) : Char(UPPER, i) = c
  THEN Char(LOWER, CHOOSE i \in 1..Len(UPPER) : Char(UPPER, i) = c)
  ELSE c
RECURSIVE Lower(_)
Lower(s) == IF s = "" THEN "" ELSE LowerChar(Char(s, 1)) \o Lower(Rest(s))

\* mac.replace("-", ":")
RECURSIVE DashToColon(_)
DashToColon(s) ==
  IF s = "" THEN ""
  ELSE (IF Char(s, 1) = "-" THEN ":" ELSE Char(s, 1)) \o DashToColon(Rest(s))

\* mac.split(":"): cur is the part being read, acc the parts before it
RECURSIVE SplitColon(_, _, _)
SplitColon(s, cur, acc) ==
  IF s = "" THEN Append(acc, cur)
  ELSE IF Char(s, 1) = ":" THEN SplitColon(Rest(s), "", Append(acc, cur))
  ELSE SplitColon(Rest(s), cur \o Char(s, 1), acc)

IsHex(c) == \E i \in 1..Len(HEX) : Char(HEX, i) = c
HexValue(c) == (CHOOSE i \in 1..Len(HEX) : Char(HEX, i) = c) - 1

\* what int() strips around the number
RECURSIVE StripLeft(_)
StripLeft(s) == IF s # "" /\ Char(s, 1) = " " THEN StripLeft(Rest(s)) ELSE s
RECURSIVE StripRight(_)
StripRight(s) ==
  IF s # "" /\ Char(s, Len(s)) = " " THEN StripRight(SubSeq(s, 1, Len(s) - 1))
  ELSE s

\* the digits of int(p, 16) after sign and prefix: hex digits, with single
\* underscores between them (and one after the prefix); prev tells whether
\* the character before was a digit, v is the value so far
NoValue == -1
RECURSIVE HexDigits(_, _, _)
HexDigits(s, prev, v) ==
  IF s = "" THEN (IF prev THEN v ELSE NoValue)
  ELSE IF IsHex(Char(s, 1)) THEN HexDigits(Rest(s), TRUE, 16 * v + HexValue(Char(s, 1)))
  ELSE IF Char(s, 1) = "_" /\ prev /\ Len(s) > 1 /\ IsHex(Char(s, 2))
       THEN HexDigits(Rest(s), FALSE, v)
  ELSE NoValue

\* int(p, 16) for a lower-case p: blanks around the number, a sign and the
\* prefix 0x are accepted. ok = FALSE is ValueError.
IntBase16(p) ==
  LET s1 == StripRight(StripLeft(p))
      signed == s1 # "" /\ Char(s1, 1) \in {"+", "-"}
      s2 == IF signed THEN Rest(s1) ELSE s1
      prefixed == StartsWith(s2, "0x")
      s3 == IF prefixed THEN SubSeq(s2, 3, Len(s2)) ELSE s2
      s4 == IF prefixed /\ s3 # "" /\ Char(s3, 1) = "_" THEN Rest(s3) ELSE s3
      v == IF s4 # "" /\ IsHex(Char(s4, 1)) THEN HexDigits(s4, FALSE, 0) ELSE NoValue
  IN IF v = NoValue THEN [ok |-> FALSE, v |-> 0]
     ELSE [ok |-> TRUE, v |-> IF signed /\ Char(s1, 1) = "-" THEN 0 - v ELSE v]

\* _mac_to_bytes: ValueError unless there are six parts, int(p, 16) accepts
\* each and bytes() accepts each value (0..255)
MacParts(mac) == SplitColon(DashToColon(Lower(mac)), "", << >>)
MacToBytes(mac) ==
  LET parts == MacParts(mac)
      ints  == [i \in 1..Len(parts) |-> IntBase16(parts[i])]
  IN IF Len(parts) # 6 THEN [ok |-> FALSE, bytes |-> << >>]
     ELSE IF \E i \in 1..6 : ~ints[i].ok \/ ints[i].v < 0 \/ ints[i].v > 255
     THEN [ok |-> FALSE, bytes |-> << >>]
     ELSE [ok |-> TRUE, bytes |-> [i \in 1..6 |-> ints[i].v]]

\* repeats: int = 3, and range(max(1, repeats))
REPEATS == 3
Sends == Max(1, REPEATS)

\* request bodies: the id of a device of the registry, of none (one past the
\* last), or no id (0); and a mac
NoId == 0
OctetSamples == {"1f", "AB", "0x1f", "zz", "", "100", "+1", " 7"}
MacSamples ==
  {""}
    \cup {a \o s \o "22:33:44:55" \o e :
            a \in OctetSamples, s \in {":", "-"},
            e \in {"", ":66:77"} \cup {t \o b : t \in {":", "-"}, b \in OctetSamples}}
WolRequests(hosts) == [id : {NoId} \cup hosts \cup {Len(Devices) + 1}, mac : MacSamples]

NoWolRequest == [id |-> NoId, mac |-> ""]
NoWolLocals == [mac |-> "", bytes |-> << >>]
WolIdle ==
  wpc = "off" /\ wreq = NoWolRequest /\ wloc = NoWolLocals /\ wres = 0 /\ sent = << >>

\* lines 36-47 of server.py: the mac of the request, or of the device
WolLookup ==
  /\ wpc = "received"
  /\ LET given == Lower(wreq.mac)
         found == wreq.id \in Hosts
         mac   == IF wreq.id # NoId /\ found /\ given = ""
                  THEN state[wreq.id].mac ELSE given
     IN IF wreq.id # NoId /\ ~found
        THEN wres' = 404 /\ wpc' = "answered" /\ UNCHANGED wloc
        ELSE IF mac = ""
        THEN wres' = 400 /\ wpc' = "answered" /\ UNCHANGED wloc
        ELSE wloc' = [wloc EXCEPT !.mac = mac] /\ wpc' = "parse" /\ UNCHANGED wres
  /\ UNCHANGED <<scannerVars, probeVars, raceVars, wreq, sent>>

\* line 14 of wol.py; the ValueError is answered with 500 (server.py 51-52)
WolParse ==
  /\ wpc = "parse"
  /\ LET b == MacToBytes(wloc.mac)
     IN IF b.ok
        THEN wloc' = [wloc EXCEPT !.bytes = b.bytes] /\ wpc' = "send" /\ UNCHANGED wres
        ELSE wres' = 500 /\ wpc' = "answered" /\ UNCHANGED wloc
  /\ UNCHANGED <<scannerVars, probeVars, raceVars, wreq, sent>>

\* lines 17-20 of wol.py: one s.sendto(payload, addr); after the last one
\* the request is answered with 200
WolSend ==
  /\ wpc = "send"
  /\ sent' = Append(sent, wloc.bytes)
  /\ IF Len(sent') = Sends
     THEN wres' = 200 /\ wpc' = "answered"
     ELSE UNCHANGED <<wres, wpc>>
  /\ UNCHANGED <<scannerVars, probeVars, raceVars, wreq, wloc>>

\* one scan of one host, for every answer of the remote ends
ScanOfHostInit ==
  /\ scn = ProbedScenario
  /\ ScannerInit
  /\ pin \in ProbeInputs
  /\ ppc = "probe"
  /\ out = NoOut
  /\ rec = FullState(Scenarios[ProbedScenario].devices[pin.h])
  /\ WolIdle
  /\ RaceIdle

ScanOfHostNext == ScanPorts \/ ScanSsh \/ ScanCommit

ScanOfHost == ScanOfHostInit /\ [][ScanOfHostNext]_vars

\* one wake request, for every body
WakeInit ==
  /\ scn = ProbedScenario
  /\ ScannerInit
  /\ ProbeIdle
  /\ RaceIdle
  /\ wreq \in WolRequests(1..Len(Scenarios[ProbedScenario].devices))
  /\ wpc = "received"
  /\ wloc = NoWolLocals
  /\ wres = 0
  /\ sent = << >>

WakeNext == WolLookup \/ WolParse \/ WolSend

Wake == WakeInit /\ [][WakeNext]_vars

(* ------------------------------------------------ the scanner as a whole *)
Init ==
  /\ ScannerInit
  /\ ProbeIdle
  /\ RaceIdle
  /\ WolIdle

Next ==
  \/ \E t \in Scanners : Probe(t)
  \/ \E t \in Scanners : TakeTime(t)
  \/ \E t \in Scanners : Acquire(t)
  \/ \E t \in Scanners : CommitWrite(t)
  \/ \E t \in Callers : ScanNow(t)
  \/ \E t \in Callers : ScanNowReturn(t)
  \/ \E w \in Workers : RunLoop(w)
  \/ \E w \in Workers : IntervalEnds(w)
  \/ \E w \in Workers : RunWait(w)
  \/ Snapshot
  \/ Get
  \/ GetRead
  \/ GetDone
  \/ Start
  \/ StopSet
  \/ StopReturn

Spec == Init /\ [][Next]_vars

\* what the scheduling of the threads gives: a scanning thread that can take
\* its next step takes it (every probe call returns, the holder of the lock
\* goes on to release it), and a thread waiting for the lock, which is free
\* again and again, gets it. Nothing makes the interval run out, and no
\* caller is bound to call.
Fairness ==
  /\ \A w \in Workers : WF_vars(RunLoop(w)) /\ WF_vars(RunWait(w))
  /\ \A t \in Scanners :
       /\ WF_vars(Probe(t)) /\ WF_vars(TakeTime(t))
       /\ SF_vars(Acquire(t)) /\ WF_vars(CommitWrite(t))

\* the deployment with start(), stop() and scan_now() callers around the
\* worker
ControlledScenario ==
  CHOOSE i \in 1..Len(Scenarios) : Scenarios[i].calls = {"start", "stop", "scan_now"}

ControlledInit == scn = ControlledScenario /\ Init

\* the steps of that deployment: it issues no snapshot() and no get()
ControlledNext ==
  \/ \E t \in Scanners : Probe(t)
  \/ \E t \in Scanners : TakeTime(t)
  \/ \E t \in Scanners : Acquire(t)
  \/ \E t \in Scanners : CommitWrite(t)
  \/ \E t \in Callers : ScanNow(t)
  \/ \E t \in Callers : ScanNowReturn(t)
  \/ \E w \in Workers : RunLoop(w)
  \/ \E w \in Workers : IntervalEnds(w)
  \/ \E w \in Workers : RunWait(w)
  \/ Start
  \/ StopSet
  \/ StopReturn

FairSpec == ControlledInit /\ [][ControlledNext]_vars /\ Fairness

\* the worker of that deployment with several threads calling start() and
\* stop()
RaceNext ==
  \/ \E w \in Workers : Probe(w)
  \/ \E w \in Workers : TakeTime(w)
  \/ \E w \in Workers : Acquire(w)
  \/ \E w \in Workers : CommitWrite(w)
  \/ \E w \in Workers : RunLoop(w)
  \/ \E w \in Workers : IntervalEnds(w)
  \/ \E w \in Workers : RunWait(w)
  \/ \E a \in ApiCallers : StartTest(a)
  \/ \E a \in ApiCallers : StartClear(a)
  \/ \E a \in ApiCallers : StartCreate(a)
  \/ \E a \in ApiCallers : StartRun(a)
  \/ \E a \in ApiCallers : StopSignal(a)
  \/ \E a \in ApiCallers : StopJoin(a)

Race == ControlledInit /\ [][RaceNext]_vars

(* ------------------------------------------------------------ properties *)
\* the record of host h is not inside a commit section
Committed(h) == ~(lock # "free" /\ Cur(lock) = h)

\* this step leaves the commit section of host h
CommitEnds(h) == lock # "free" /\ lock' = "free" /\ Cur(lock) = h

\* the port-probe-derived URL of host h for port p
PortUrlOf(h, p) == IF p = NoPort THEN "" ELSE PortUrl(Devices[h].ip, p)

\* the number of the assignment to field f in the commit section
FieldIndex(f) == CHOOSE k \in 1..Len(CommitOrder) : CommitOrder[k] = f

\* no scan_now() cycle is in flight
CallersIdle == \A t \in Callers : pc[t] = "idle"

\* C1: every record snapshot() returns is the host's record entirely before
\* or entirely after a commit, never a mix of both, whatever the worker and
\* scan_now() cycles are doing.
C1_SnapshotNeverTorn == snapres.whole

\* a snapshot was taken while a scan cycle was in progress
C1_SnapshotDuringCycle == snapres.taken /\ snapres.busy /\ snapres.whole

\* C2: the values a caller reads from the record get() returned belong to
\* one committed state of that record: one it had between the return of
\* get() and now, or the one the commit under way is about to leave.
C2_GetReadsOneState ==
  gpc = "done" => gval \in gseen \cup {Project(After(gref))}

\* C3 as stated: once stop() has returned (no start() after it, no
\* scan_now() cycle running), the registry does not change any more.
C3_FrozenAfterStop ==
  [][(cpc = "idle" /\ last \in {"stop_joined", "stop_joined_late", "stop_timeout"}
      /\ CallersIdle) => state' = state]_vars

\* C3 amended: once stop() has returned with the worker thread ended (the
\* join did not time out), and while no scan_now() cycle is running and no
\* start() has followed, the registry does not change any more.
C3_FrozenAfterJoin ==
  [][(cpc = "idle" /\ last \in {"stop_joined", "stop_joined_late"}
      /\ CallersIdle) => state' = state]_vars

\* stop() was called during a cycle, returned after the worker had ended,
\* and the registry holds what that cycle committed
C3_StoppedAfterCycle ==
  /\ cpc = "idle" /\ last = "stop_joined_late" /\ CallersIdle
  /\ \E h \in Hosts : state[h].last_checked # NoTime

\* C4: start() with the worker alive changes nothing, and after every
\* start() of a sequence of start()/stop() calls exactly one worker exists;
\* there are never two.
C4_StartIdempotent ==
  /\ [](Cardinality(AliveWorkers) <= 1 /\ (AliveWorkers # {} => AliveWorkers = {thread}))
  /\ [][(last' # last /\ last' \in {"start_new", "start_noop"}) =>
          /\ Cardinality({w \in Workers : pc'[w] # "dead"}) = 1
          /\ (last' = "start_noop" => pc' = pc /\ thread' = thread /\ stop' = stop)]_vars

\* a second start() found the worker alive and returned
C4_SecondStartNoop == last = "start_noop" /\ Cardinality(AliveWorkers) = 1

\* C5: an exception in one host's pipeline is discarded: the cycle goes on
\* with the next host and ends with every other host committed, and the
\* worker ends only after stop was set.
C5_HostFailureIsolated ==
  /\ [](\A t \in Scanners : pc[t] = CycleEnd(t) =>
          /\ raised[t] \cup done[t] = Hosts
          /\ \A h \in done[t] : state[h].last_checked # NoTime)
  /\ [][\A t \in Scanners :
          /\ (raised'[t] \notin {raised[t], {}}) => pc'[t] = AfterHost(t, idx[t] + 1)
          /\ (t \in Workers /\ pc[t] # "dead" /\ pc'[t] = "dead") => stop]_vars

\* the worker has finished a cycle, not its first, in which the second host
\* raised and the hosts before and after it were committed
C5_CycleWithFailedHost ==
  \E w \in Workers :
    /\ pc[w] = "wait" /\ raised[w] = {2} /\ done[w] = {1, 3}
    /\ ~state[1].up /\ state[1].last_seen # NoTime
    /\ state[3].last_checked # NoTime

\* C6: when a cycle is over, every host was committed in it and carries a
\* last_checked.
C6_EveryHostChecked ==
  \A t \in Scanners : pc[t] = CycleEnd(t) =>
    \A h \in Hosts : h \in done[t] /\ state[h].last_checked # NoTime

\* C7: a commit sets up and last_checked from its cycle; it leaves last_seen
\* as it was when its cycle saw the host down and sets it to its
\* last_checked when the cycle saw the host up; last_seen changes in no
\* other way.
C7_LastSeenOnlyWhenUp ==
  [][\A h \in Hosts :
       /\ CommitEnds(h) =>
            /\ state'[h].up = loc[lock].up
            /\ state'[h].last_checked = loc[lock].now
            /\ state'[h].last_seen =
                 IF loc[lock].up THEN state'[h].last_checked ELSE pre.last_seen
       /\ state'[h].last_seen # state[h].last_seen =>
            /\ lock # "free" /\ Cur(lock) = h /\ loc[lock].up
            /\ state'[h].last_seen = loc[lock].now]_vars

\* a host seen up in one cycle was committed down by a later one and still
\* carries the earlier last_seen
C7_DownCommitKeepsLastSeen ==
  \E h \in Hosts :
    /\ Committed(h) /\ ~state[h].up
    /\ state[h].last_seen # NoTime /\ state[h].last_seen < state[h].last_checked

\* C8: a non-empty mac never becomes empty, and mac changes only to the
\* non-empty value of the committing cycle.
C8_MacSticky ==
  [][\A h \in Hosts :
       /\ state[h].mac # "" => state'[h].mac # ""
       /\ state'[h].mac # state[h].mac =>
            /\ lock # "free" /\ Cur(lock) = h
            /\ state'[h].mac = loc[lock].mac /\ loc[lock].mac # ""]_vars

\* a cycle whose resolution came back empty has passed the mac assignment
\* of its commit, and the mac another cycle had resolved is still there
C8_EmptyResolutionKeepsMac ==
  \E t \in Scanners :
    /\ lock = t /\ cw > FieldIndex("mac")
    /\ loc[t].mac = "" /\ state[Cur(t)].mac # ""

\* C9: in every committed record gns3_active holds exactly when the port
\* probe found an open port or the API probe succeeded.
C9_ActiveIffPortOrApi ==
  \A h \in Hosts : Committed(h) =>
    (state[h].gns3_active <=> (state[h].gns3_port # NoPort \/ state[h].gns3_api_ok))

\* a host with no open port is active through the API alone
C9_ActiveByApiOnly ==
  \E h \in Hosts :
    /\ Committed(h) /\ state[h].gns3_active
    /\ state[h].gns3_port = NoPort /\ state[h].gns3_api_ok

\* C10 as stated: the committed gns3_url is the configured URL when the API
\* probe succeeded and the port-derived URL otherwise.
C10_ConfigUrlOnlyOnApiSuccess ==
  \A h \in Hosts : Committed(h) /\ state[h].last_checked # NoTime =>
    state[h].gns3_url =
      IF state[h].gns3_api_ok THEN Devices[h].gns3key.server_url
      ELSE PortUrlOf(h, state[h].gns3_port)

\* C10 amended: the committed gns3_url is the configured URL whenever the
\* host has API credentials and the API probe returned, with api_ok or not,
\* and the port-derived URL otherwise (no credentials, or the probe raised).
C10_ConfigUrlWhenApiReturned ==
  [][\A h \in Hosts : CommitEnds(h) =>
       state'[h].gns3_url =
         IF loc[lock].api_ran THEN Devices[h].gns3key.server_url
         ELSE PortUrlOf(h, state'[h].gns3_port)]_vars

\* a host with an open port whose API probe returned not ok carries the
\* configured URL
C10_ConfigUrlWithoutApiSuccess ==
  \E h \in Hosts :
    /\ Committed(h) /\ ~state[h].gns3_api_ok /\ state[h].gns3_port # NoPort
    /\ GkeyConfigured(Devices[h].gns3key)
    /\ state[h].gns3_url = Devices[h].gns3key.server_url

(* ------------------------------------------- properties of a host's scan *)
\* the host of the scan, its configured address, and the address list an
\* open channel would have brought back from the remote listing
Scanned == Devices[pin.h]
Listed == Filtered(Addrs(pin.ssh.addrs.tokens), << >>)

NoDuplicate(list) ==
  \A i \in 1..Len(list) : \A j \in 1..Len(list) : list[i] = list[j] => i = j

\* the scan committed with the remote-shell probe connected
CommittedWithShell == ppc = "done" /\ out.ssh.ok

\* list holds ip, in front if found did not hold it, and nothing twice
HoldsPrimary(list, ip, found) ==
  /\ Contains(list, ip)
  /\ NoDuplicate(list)
  /\ (~Contains(found, ip) => list = <<ip>> \o found)

\* C11: after a commit the ips of the host contain its configured address,
\* in front when the remote-shell probe's list did not have it, and no
\* address twice -- for the list the probe returned and for every list the
\* address filter can hand to the commit.
C11_IpsHoldPrimary ==
  ppc = "done" =>
    /\ HoldsPrimary(rec.ips, Scanned.ip, out.ssh.ips)
    /\ HoldsPrimary(CommitIps(Scanned.ip, Listed), Scanned.ip, Listed)

\* a commit after a connected remote-shell probe: the configured address is
\* in the list, and the listing shows it next to another address
C11_PrimaryCommitted ==
  /\ CommittedWithShell
  /\ rec.ips[1] = Scanned.ip
  /\ Contains(Listed, Scanned.ip) /\ Len(Listed) = 2

\* C12: when the remote-shell probe connected and the address listing shows
\* a global address that is neither loopback nor link-local, the committed
\* ips are the listed addresses, de-duplicated in first-seen order, with the
\* configured address in front if it is not among them.
C12_ListedIpsCommitted ==
  (CommittedWithShell /\ pin.ssh.addrs.st = "ok" /\ Listed # << >>) =>
    rec.ips = CommitIps(Scanned.ip, Listed)

\* the host has API credentials / the remote-shell probe connected
ApiProbed == GkeyConfigured(Scanned.gns3key)
ShellConnected == SshConfigured(Scanned.ssh) /\ pin.ssh.conn

\* C13: when neither /v3/version nor /v2/version answers ok, the API probe
\* gives not-ok, no open project and no CPU or memory percent, whatever the
\* other endpoints answer; after a commit, gns3_api_ok = False comes with
\* gns3_projects_open = 0 and both percents absent.
C13_NoVersionNoMetrics ==
  (ppc = "done" /\ ~rec.gns3_api_ok) =>
    /\ rec.gns3_projects_open = 0
    /\ ~Present(rec.gns3_cpu_percent)
    /\ ~Present(rec.gns3_mem_percent)

\* C14: with the remote shell connected, a diagnostic command that fails
\* leaves ok = True and only its own metric absent; the metric of every
\* command that did not fail is the one derived from its output.
C14_CommandFailureIsLocal ==
  (ppc \in {"commit", "done"} /\ ShellConnected) =>
    /\ out.ssh.ok
    /\ out.ssh.cpu = (IF pin.ssh.cpu.st = "raise" THEN NoPercent
                      ELSE CpuPercent(pin.ssh.cpu.lines))
    /\ out.ssh.mem = (IF pin.ssh.mem.st = "raise" THEN NoPercent
                      ELSE MemPercent(pin.ssh.mem.mt, pin.ssh.mem.ma))
    /\ out.ssh.disk = (IF pin.ssh.df.st = "raise" THEN NoPercent
                       ELSE DiskPercent(pin.ssh.df))
    /\ (pin.ssh.who.st # "raise" =>
          out.ssh.users = UsersActive(pin.ssh.who, pin.ssh.uptime, pin.ssh.wc))
    /\ (pin.ssh.addrs.st = "raise" => out.ssh.ips = << >>)

\* p is None or a value of [0, 100]
InRange(p) == Present(p) => (p.n >= 0 /\ p.n <= 100 * p.d)

\* C15: every percent of a committed record that is present lies in
\* [0, 100], for all counter lines, MemTotal/MemAvailable pairs, statistics
\* objects and disk-usage columns.
C15_PercentsInRange ==
  ppc = "done" =>
    /\ InRange(rec.gns3_cpu_percent)
    /\ InRange(rec.gns3_mem_percent)
    /\ InRange(rec.ssh_cpu_percent)
    /\ InRange(rec.ssh_mem_percent)
    /\ InRange(rec.ssh_disk_percent)

\* C16: for two well-formed "cpu " lines the CPU percent is
\* 100 * (1 - idle_delta / total_delta) when the total has grown (idle not
\* having shrunk), and exactly 0 when the second total is not above the
\* first.
C16_CpuPercentOfDeltas ==
  (ppc \in {"commit", "done"} /\ out.ssh.ok /\ Len(pin.ssh.cpu.lines) = 2
     /\ Len(pin.ssh.cpu.lines[1]) >= 4 /\ Len(pin.ssh.cpu.lines[2]) >= 4) =>
    LET l1 == pin.ssh.cpu.lines[1]
        l2 == pin.ssh.cpu.lines[2]
        i  == Idle(l2) - Idle(l1)
        t  == Total(l2) - Total(l1)
        c  == out.ssh.cpu
    IN /\ Present(c)
       /\ (t > 0 /\ i >= 0 => c.n * t = 100 * (t - i) * c.d)
       /\ (t <= 0 => c.n = 0)

\* C20: when a projects or statistics request of the API probe raises, the
\* committed gns3_api_ok still tells whether a version request answered ok,
\* and the results of the reachability, port and remote-shell probes are
\* committed in the same cycle.
C20_ApiExceptionIsLocal ==
  (ppc = "done" /\ ApiProbed
     /\ (pin.api.proj.st = "raise" \/ pin.api.stats.st = "raise")) =>
    /\ rec.gns3_api_ok = (pin.api.ver # "none")
    /\ rec.up = pin.up
    /\ rec.gns3_port = CheckGns3Ports(pin.open)
    /\ rec.ssh_ok = out.ssh.ok
    /\ rec.ssh_disk_percent = out.ssh.disk

(* ------------------------------------------- properties of a wake request *)
\* a part with a character that is no hex digit
NonHex(part) == \E i \in 1..Len(part) : ~IsHex(Char(part, i))

\* the MAC string has not six parts, or a part with a non-hex character
Malformed(mac) ==
  LET parts == MacParts(mac)
  IN Len(parts) # 6 \/ \E i \in 1..Len(parts) : NonHex(parts[i])

\* C17: no datagram is sent for a rejected wake request: a malformed MAC
\* string makes send_magic_packet fail before a socket exists (the request
\* is answered with the error), and a request whose device id is unknown or
\* that has no MAC is answered without a send.
C17_NoSendWhenRejected ==
  /\ (wloc.mac # "" /\ Malformed(wloc.mac)) =>
       (wpc # "send" /\ sent = << >> /\ wres \in {0, 500})
  /\ (wres \in {400, 404} => sent = << >>)

(* ------------------------------------------------ properties of the lock
   and of the worker's end *)
\* C18: once stop is set a worker that is alive ends -- out of its wait
\* without the interval running out, and out of a cycle once its probes
\* have returned -- and a worker that finds stop set when it tests it
\* begins no cycle.
C18_StopEndsWorker ==
  /\ \A w \in Workers : (stop /\ Alive(w)) ~> ~Alive(w)
  /\ [][\A w \in Workers :
          (stop /\ pc[w] = "loop" /\ pc'[w] # "loop") => pc'[w] = "dead"]_vars

\* stop() found the worker between two cycles, after it had scanned, and
\* returned with the worker ended
C18_WorkerEndedAfterStop ==
  /\ last = "stop_joined" /\ thread # "none" /\ ~Alive(thread)
  /\ \E h \in Hosts : state[h].last_checked # NoTime

\* the threads inside the commit section
Committing == {t \in Scanners : pc[t] = "commit"}

\* C19: the lock is held only by a thread inside the commit section, by one
\* at a time, and never by a thread that is probing; the holder's next
\* assignment waits for nothing, and with the lock free snapshot() and get()
\* go through, whatever the probes of a cycle in progress are doing.
C19_LockOnlyAroundCommit ==
  /\ Committing = (IF lock = "free" THEN {} ELSE {lock})
  /\ \A t \in Scanners : pc[t] \in {"probe", "time", "lock"} => lock # t
  /\ (lock # "free" => ENABLED CommitWrite(lock))
  /\ (lock = "free" /\ "snapshot" \in Calls => ENABLED Snapshot)
  /\ (lock = "free" /\ "get" \in Calls /\ gpc = "idle" => ENABLED Get)

\* a snapshot was taken during a cycle, and one thread is inside the commit
\* section while another one is probing
C19_CommitBesideProbe ==
  /\ snapres.taken /\ snapres.busy
  /\ \E t \in Scanners : \E u \in Scanners :
       pc[t] = "probe" /\ pc[u] = "commit" /\ lock = u

(* -------------------------------------- properties of start() and of time *)
\* the last call of the controlling thread was a start(), and it returned
StartedLast == cpc = "idle" /\ last \in {"start_new", "start_noop"}

\* C21: after start() has returned, and until the next stop(), a worker is
\* running -- for every sequence of start() and stop() calls, a start()
\* right after a stop() whose join timed out included.
C21_WorkerRunsAfterStart ==
  StartedLast => thread # "none" /\ Alive(thread)

\* C22: with scan_now() cycles beside the worker, a commit never takes the
\* last_checked of a host back, and last_seen, when present, is at most the
\* last_checked of the same record.
C22_TimestampsOrdered ==
  /\ [][\A h \in Hosts : state'[h].last_checked >= state[h].last_checked]_vars
  /\ [](\A h \in Hosts :
          state[h].last_seen # NoTime => state[h].last_seen <= state[h].last_checked)

\* C23: at most one worker is alive at any time, however start() and stop()
\* calls of several threads interleave.
C23_OneWorkerAlive == Cardinality(AliveWorkers) <= 1
====
